---- MODULE Spec2Model ----
(***************************************************************************)
(* Model of the submission API of alex-backend: the Express router of      *)
(* src/routes/submissions.js over the Mongoose model of                    *)
(* src/models/Submission.js.                                               *)
(*                                                                         *)
(* Strings the code inspects character by character (name, email, message, *)
(* assignedTo) are sequences of one-character strings; enumerated values   *)
(* and identifiers are atomic strings; dates are integers (clock readings).*)
(* A request body and a stored document are partial records: a field that  *)
(* is absent in JSON is absent from the record's DOMAIN.                   *)
(*                                                                         *)
(* inflight holds the requests a handler has begun and not yet answered,   *)
(* in the specifications that follow a handler from one await to the next. *)
(***************************************************************************)
EXTENDS Integers, Sequences, FiniteSets, TLC

VARIABLES schema, store, nextId, now, resp, inflight

vars == <<schema, store, nextId, now, resp, inflight>>

(***************************************************************************)
(* Bounds of the model.                                                    *)
(***************************************************************************)
MaxRecords == 2

(* Records created in the create specification. *)
MaxCreated == 1

MaxTime == 2

(* How far the clock may advance between a handler's reading and the write. *)
MaxLag == 1

(* Records created in the query specification. *)
MaxListed == 3

(* Partial status updates in flight together. *)
MaxCalls == 2

(* Records created while a list or dashboard request is in flight. *)
MaxRaced == 2

(***************************************************************************)
(* Partial records.                                                        *)
(***************************************************************************)
EmptyRec == [f \in {} |-> 0]

Has(r, f) == f \in DOMAIN r

Field(f, v) == f :> v

Opt(f, S) == {EmptyRec} \cup {Field(f, v) : v \in S}

Without(r, f) == [g \in DOMAIN r \ {f} |-> r[g]]

(* MongoDB $set of the fields of u on document d. *)
SetFields(u, d) == [f \in DOMAIN u \cup DOMAIN d |-> IF f \in DOMAIN u THEN u[f] ELSE d[f]]

(***************************************************************************)
(* JavaScript string operations on sequences of characters.               *)
(***************************************************************************)
UpperChars == <<"A","B","C","D","E","F","G","H","I","J","K","L","M","N","O","P","Q","R","S","T","U","V","W","X","Y","Z">>

LowerChars == <<"a","b","c","d","e","f","g","h","i","j","k","l","m","n","o","p","q","r","s","t","u","v","w","x","y","z">>

LowerChar(c) ==
  IF \E i \in DOMAIN UpperChars : UpperChars[i] = c
  THEN LowerChars[CHOOSE i \in DOMAIN UpperChars : UpperChars[i] = c]
  ELSE c

ToLowerCase(s) == [i \in DOMAIN s |-> LowerChar(s[i])]

IsSpace(c) == c = " "

RECURSIVE TrimStart(_)
TrimStart(s) == IF s # <<>> /\ IsSpace(Head(s)) THEN TrimStart(Tail(s)) ELSE s

RECURSIVE TrimEnd(_)
TrimEnd(s) ==
  IF s # <<>> /\ IsSpace(s[Len(s)]) THEN TrimEnd(SubSeq(s, 1, Len(s) - 1)) ELSE s

Trim(s) == TrimEnd(TrimStart(s))

(* String.prototype.includes *)
Includes(s, k) ==
  \E i \in 0..(Len(s) - Len(k)) : SubSeq(s, i + 1, i + Len(k)) = k

(* JavaScript truthiness of a body field holding a string or an array. *)
Truthy(r, f) == Has(r, f) /\ r[f] # <<>>

(***************************************************************************)
(* The two schema definitions of src/models/Submission.js.                 *)
(***************************************************************************)
Schemas == {"n8n", "full"}

StatusEnum == {"new", "in_progress", "completed", "archived", "spam"}

PriorityEnum(sch) ==
  IF sch = "n8n" THEN {"low", "medium", "high", "critical"}
  ELSE {"low", "medium", "high", "urgent"}

StageEnum == {"Initial Demand", "Quote Sent", "Waiting", "Negotiation", "Won", "Lost"}

SubmissionTypeEnum == {"moving", "contact", "quote", "service_request", "other"}

SourceEnum == {"Alex", "Demelina", "Website Form"}

NotFoundText == <<"N","O","T"," ","F","O","U","N","D">>

(* Top-level paths of the schema; strict mode drops every other field. *)
SchemaPaths(sch) ==
  IF sch = "n8n"
  THEN {"name", "email", "dateOfFirstContact", "message", "submissionType", "stage",
        "source", "status", "priority", "assignedTo", "tags", "processingErrors",
        "createdAt", "updatedAt"}
  ELSE {"name", "email", "dateOfFirstContact", "message", "submissionType", "stage",
        "source", "metadata", "status", "priority", "assignedTo",
        "createdAt", "updatedAt"}

(* Paths with trim: true (email also has lowercase: true). *)
TrimPaths == {"name", "email", "message", "assignedTo"}

(* A date sent by a client: a time outside the range of the server's clock. *)
ClientDate == 0 - 1

(* Mutant: the email keeps its letter case. *)
CastValueKeepsCase(sch, f, v) ==
  IF f \in TrimPaths THEN Trim(v)
  ELSE IF f = "dateOfFirstContact" /\ sch = "full" THEN ClientDate
  ELSE v

(* Setters and casts of a path; a date string on a Date path becomes a date. *)
CastValue(sch, f, v) ==
  IF f = "email" THEN ToLowerCase(Trim(v))
  ELSE IF f \in TrimPaths THEN Trim(v)
  ELSE IF f = "dateOfFirstContact" /\ sch = "full" THEN ClientDate
  ELSE v

(* Nested metadata block of the full schema, with its array defaults. *)
CastMetadata(m) ==
  [tags |-> IF Has(m, "tags") THEN m.tags ELSE <<>>,
   processingErrors |-> IF Has(m, "processingErrors") THEN m.processingErrors ELSE <<>>]

(* Schema defaults of a new document; stamp is Date.now. *)
Defaults(sch, stamp) ==
  IF sch = "n8n"
  THEN [name |-> NotFoundText, message |-> NotFoundText, submissionType |-> "moving",
        stage |-> "Initial Demand", source |-> "Website Form", status |-> "new",
        priority |-> "medium", tags |-> <<>>, processingErrors |-> <<>>,
        createdAt |-> stamp, updatedAt |-> stamp]
  ELSE [dateOfFirstContact |-> stamp, submissionType |-> "other",
        stage |-> "Initial Demand", source |-> "Unknown",
        metadata |-> CastMetadata(EmptyRec), status |-> "new", priority |-> "medium",
        createdAt |-> stamp, updatedAt |-> stamp]

(* new Submission(body): strict filter, setters and casts, then defaults. *)
NewSubmission(sch, body, stamp) ==
  LET kept == DOMAIN body \cap SchemaPaths(sch)
      cast == [f \in kept |->
                 IF f = "metadata" THEN CastMetadata(body[f])
                 ELSE CastValue(sch, f, body[f])]
  IN  SetFields(cast, Defaults(sch, stamp))

(* required: true fails on an absent or empty string. *)
RequiredPaths(sch) ==
  IF sch = "n8n" THEN {"name", "email", "dateOfFirstContact", "submissionType", "source"}
  ELSE {"name", "email", "submissionType", "source"}

EnumOf(sch, f) ==
  CASE f = "status" -> StatusEnum
    [] f = "priority" -> PriorityEnum(sch)
    [] f = "source" /\ sch = "n8n" -> SourceEnum
    [] f = "stage" /\ sch = "full" -> StageEnum
    [] f = "submissionType" /\ sch = "full" -> SubmissionTypeEnum
    [] OTHER -> {}

EnumPaths(sch) ==
  IF sch = "n8n" THEN {"source", "status", "priority"}
  ELSE {"submissionType", "stage", "status", "priority"}

IsEmptyString(f, v) == IF f \in TrimPaths THEN v = <<>> ELSE v = ""

(* Paths of doc that fail validation. *)
ValidationErrors(sch, doc) ==
  {f \in RequiredPaths(sch) : ~Has(doc, f) \/ IsEmptyString(f, doc[f])}
  \cup {f \in EnumPaths(sch) : Has(doc, f) /\ doc[f] \notin EnumOf(sch, f)}

(***************************************************************************)
(* POST /: the priority classifier.                                        *)
(***************************************************************************)
UrgentKeywords ==
  << <<"u","r","g","e","n","t">>, <<"a","s","a","p">>,
     <<"e","m","e","r","g","e","n","c","y">>,
     <<"i","m","m","e","d","i","a","t","e","l","y">>, <<"r","u","s","h">> >>

HasUrgentKeyword(body) ==
  /\ Truthy(body, "message")
  /\ \E i \in DOMAIN UrgentKeywords : Includes(ToLowerCase(body.message), UrgentKeywords[i])

(* req.body.metadata.tags.push('auto-urgent'), creating metadata and tags. *)
PushAutoUrgent(body) ==
  LET meta == IF Has(body, "metadata") THEN body.metadata ELSE EmptyRec
      tags == IF Has(meta, "tags") THEN meta.tags ELSE <<>>
  IN  SetFields(Field("metadata", SetFields(Field("tags", Append(tags, "auto-urgent")), meta)),
                body)

PriorityProvided(body) == Has(body, "priority") /\ body.priority # ""

(* Mutant: the tag is pushed for every message, not only an urgent one. *)
ClassifyPriorityTagsAll(body) ==
  LET autoPriority == IF HasUrgentKeyword(body) THEN "urgent" ELSE "medium"
      tagged == IF Truthy(body, "message") THEN PushAutoUrgent(body) ELSE body
  IN  IF PriorityProvided(body) THEN tagged
      ELSE SetFields(Field("priority", autoPriority), tagged)

(* Mutant: an urgent message overrides the priority the caller supplied. *)
ClassifyPriorityOverrides(body) ==
  LET autoPriority == IF HasUrgentKeyword(body) THEN "urgent" ELSE "medium"
      tagged == IF HasUrgentKeyword(body) THEN PushAutoUrgent(body) ELSE body
  IN  IF PriorityProvided(body) /\ ~HasUrgentKeyword(body) THEN tagged
      ELSE SetFields(Field("priority", autoPriority), tagged)

(* The request body as the handler has rewritten it before new Submission(). *)
ClassifyPriority(body) ==
  LET autoPriority == IF HasUrgentKeyword(body) THEN "urgent" ELSE "medium"
      tagged == IF HasUrgentKeyword(body) THEN PushAutoUrgent(body) ELSE body
  IN  IF PriorityProvided(body) THEN tagged
      ELSE SetFields(Field("priority", autoPriority), tagged)

MissingText(body, f) == ~Truthy(body, f) \/ Trim(body[f]) = <<>>

(* Mutant: the hook leaves the updatedAt the document was built with. *)
PreSaveKeepsUpdatedAt(doc, stamp) == doc

(* pre('save'): this.updatedAt = new Date() *)
PreSave(doc, stamp) == SetFields(Field("updatedAt", stamp), doc)

(* Mutant: the handler checks the email and not the name. *)
CreateHandlerNoNameCheck(sch, body, stamp, up) ==
  IF MissingText(body, "email")
  THEN [status |-> 400, error |-> "required"]
  ELSE LET doc == NewSubmission(sch, ClassifyPriority(body), stamp)
       IN  IF ValidationErrors(sch, doc) # {}
           THEN [status |-> 400, error |-> "ValidationError"]
           ELSE IF ~up
           THEN [status |-> 400, error |-> "storage"]
           ELSE [status |-> 201, doc |-> PreSave(doc, stamp)]

(* The handler of POST /: [status, doc]; doc is what save() inserts. *)
CreateHandler(sch, body, stamp, up) ==
  IF MissingText(body, "name") \/ MissingText(body, "email")
  THEN [status |-> 400, error |-> "required"]
  ELSE LET doc == NewSubmission(sch, ClassifyPriority(body), stamp)
       IN  IF ValidationErrors(sch, doc) # {}
           THEN [status |-> 400, error |-> "ValidationError"]
           ELSE IF ~up
           THEN [status |-> 400, error |-> "storage"]
           ELSE [status |-> 201, doc |-> PreSave(doc, stamp)]

(***************************************************************************)
(* Identifiers.                                                            *)
(***************************************************************************)
IdNames ==
  <<"650000000000000000000001", "650000000000000000000002", "650000000000000000000003",
    "650000000000000000000004", "650000000000000000000005", "650000000000000000000006">>

(* Well-formed ObjectIds: those the store hands out and one it never does. *)
ObjectIds == {IdNames[i] : i \in 1..(MaxRecords + 1)}

IsObjectId(id) == id \in ObjectIds

(***************************************************************************)
(* Store operations of Mongoose, as the handlers call them.  up is whether *)
(* the store answers; each returns [error, found, store].                  *)
(***************************************************************************)
(* Casting of an update document: strict filter, then setters and casts. *)
CastUpdate(sch, update) ==
  [f \in DOMAIN update \cap SchemaPaths(sch) |-> CastValue(sch, f, update[f])]

(* pre('findOneAndUpdate'): this.set({ updatedAt: new Date() }) *)
PreFindOneAndUpdate(update, stamp) == SetFields(Field("updatedAt", stamp), update)

(* runValidators: true checks only the paths the update sets. *)
UpdateValidationErrors(sch, update) ==
  {f \in RequiredPaths(sch) \cap DOMAIN update : IsEmptyString(f, update[f])}
  \cup {f \in EnumPaths(sch) \cap DOMAIN update : update[f] \notin EnumOf(sch, f)}

(* Mutant: the update is written before its validators run. *)
FindByIdAndUpdateValidatesLate(sch, st, id, update, stamp, up) ==
  LET set == PreFindOneAndUpdate(CastUpdate(sch, update), stamp)
      written == IF Has(st, id) THEN SetFields(Field(id, SetFields(set, st[id])), st)
                 ELSE st
  IN  IF ~IsObjectId(id) THEN [error |-> "CastError", found |-> FALSE, store |-> st]
      ELSE IF ~up THEN [error |-> "storage", found |-> FALSE, store |-> st]
      ELSE IF UpdateValidationErrors(sch, set) # {}
      THEN [error |-> "ValidationError", found |-> FALSE, store |-> written]
      ELSE [error |-> "none", found |-> Has(st, id), store |-> written]

(* Mutant: the update replaces the document. *)
FindByIdAndUpdateOverwrites(sch, st, id, update, stamp, up) ==
  LET set == PreFindOneAndUpdate(CastUpdate(sch, update), stamp)
  IN  IF ~IsObjectId(id) THEN [error |-> "CastError", found |-> FALSE, store |-> st]
      ELSE IF UpdateValidationErrors(sch, set) # {}
      THEN [error |-> "ValidationError", found |-> FALSE, store |-> st]
      ELSE IF ~up THEN [error |-> "storage", found |-> FALSE, store |-> st]
      ELSE IF ~Has(st, id) THEN [error |-> "none", found |-> FALSE, store |-> st]
      ELSE [error |-> "none", found |-> TRUE, store |-> SetFields(Field(id, set), st)]

(* Mutant: the update inserts the document when none has the id. *)
FindByIdAndUpdateUpserts(sch, st, id, update, stamp, up) ==
  LET set == PreFindOneAndUpdate(CastUpdate(sch, update), stamp)
  IN  IF ~IsObjectId(id) THEN [error |-> "CastError", found |-> FALSE, store |-> st]
      ELSE IF UpdateValidationErrors(sch, set) # {}
      THEN [error |-> "ValidationError", found |-> FALSE, store |-> st]
      ELSE IF ~up THEN [error |-> "storage", found |-> FALSE, store |-> st]
      ELSE [error |-> "none", found |-> TRUE,
            store |-> SetFields(Field(id, IF Has(st, id) THEN SetFields(set, st[id])
                                          ELSE set), st)]

(* findByIdAndUpdate(id, update, { new: true, runValidators: true }) *)
FindByIdAndUpdate(sch, st, id, update, stamp, up) ==
  LET set == PreFindOneAndUpdate(CastUpdate(sch, update), stamp)
  IN  IF ~IsObjectId(id) THEN [error |-> "CastError", found |-> FALSE, store |-> st]
      ELSE IF UpdateValidationErrors(sch, set) # {}
      THEN [error |-> "ValidationError", found |-> FALSE, store |-> st]
      ELSE IF ~up THEN [error |-> "storage", found |-> FALSE, store |-> st]
      ELSE IF ~Has(st, id) THEN [error |-> "none", found |-> FALSE, store |-> st]
      ELSE [error |-> "none", found |-> TRUE,
            store |-> SetFields(Field(id, SetFields(set, st[id])), st)]

FindById(st, id, up) ==
  IF ~IsObjectId(id) THEN [error |-> "CastError", found |-> FALSE]
  ELSE IF ~up THEN [error |-> "storage", found |-> FALSE]
  ELSE [error |-> "none", found |-> Has(st, id)]

FindByIdAndDelete(st, id, up) ==
  IF ~IsObjectId(id) THEN [error |-> "CastError", found |-> FALSE, store |-> st]
  ELSE IF ~up THEN [error |-> "storage", found |-> FALSE, store |-> st]
  ELSE IF ~Has(st, id) THEN [error |-> "none", found |-> FALSE, store |-> st]
  ELSE [error |-> "none", found |-> TRUE, store |-> Without(st, id)]

(* updateMany({ _id: { $in: ids } }, { $set: updates }): no validators, no hook. *)
UpdateMany(sch, st, ids, updates, up) ==
  LET set == CastUpdate(sch, updates)
      hit == {id \in DOMAIN st : \E i \in DOMAIN ids : ids[i] = id}
      after == [id \in DOMAIN st |-> IF id \in hit THEN SetFields(set, st[id]) ELSE st[id]]
  IN  IF \E i \in DOMAIN ids : ~IsObjectId(ids[i])
      THEN [error |-> "CastError", matched |-> 0, modified |-> 0, store |-> st]
      ELSE IF ~up THEN [error |-> "storage", matched |-> 0, modified |-> 0, store |-> st]
      ELSE [error |-> "none", matched |-> Cardinality(hit),
            modified |-> Cardinality({id \in hit : after[id] # st[id]}), store |-> after]

(***************************************************************************)
(* The handlers: [status, store], what the response carries and, for an    *)
(* error the handler caught, the error; store is the collection as the     *)
(* handler's call of the store left it.                                    *)
(***************************************************************************)
(* GET /:id *)
GetByIdHandler(st, id, up) ==
  LET r == FindById(st, id, up)
  IN  IF r.error = "CastError" THEN [status |-> 400, store |-> st]
      ELSE IF r.error # "none" THEN [status |-> 500, store |-> st]
      ELSE IF ~r.found THEN [status |-> 404, store |-> st]
      ELSE [status |-> 200, store |-> st]

(* PUT /:id *)
PutHandler(sch, st, id, body, stamp, up) ==
  LET r == FindByIdAndUpdate(sch, st, id, SetFields(Field("updatedAt", stamp), body),
                             stamp, up)
  IN  IF r.error # "none" THEN [status |-> 400, store |-> r.store, error |-> r.error]
      ELSE IF ~r.found THEN [status |-> 404, store |-> r.store]
      ELSE [status |-> 200, store |-> r.store]

TruthyValue(body, f) ==
  Has(body, f) /\ (IF f \in TrimPaths THEN body[f] # <<>> ELSE body[f] # "")

(* Mutant: the handler passes the whole body to the store. *)
UpdateFieldsWholeBody(body, stamp) == SetFields(Field("updatedAt", stamp), body)

(* The updateFields object of PATCH /:id/status. *)
UpdateFields(body, stamp) ==
  SetFields([f \in {g \in {"stage", "status", "priority", "assignedTo"} : TruthyValue(body, g)}
               |-> body[f]],
            Field("updatedAt", stamp))

(* PATCH /:id/status *)
PatchStatusHandler(sch, st, id, body, stamp, up) ==
  LET r == FindByIdAndUpdate(sch, st, id, UpdateFields(body, stamp), stamp, up)
  IN  IF r.error # "none" THEN [status |-> 400, store |-> r.store, error |-> r.error]
      ELSE IF ~r.found THEN [status |-> 404, store |-> r.store]
      ELSE [status |-> 200, store |-> r.store]

(* Mutant: the handler does not check that a record was deleted. *)
DeleteHandlerNoNullCheck(st, id, up) ==
  LET r == FindByIdAndDelete(st, id, up)
  IN  IF r.error # "none" THEN [status |-> 500, store |-> r.store]
      ELSE [status |-> 200, store |-> r.store, deletedId |-> id]

(* DELETE /:id *)
DeleteHandler(st, id, up) ==
  LET r == FindByIdAndDelete(st, id, up)
  IN  IF r.error # "none" THEN [status |-> 500, store |-> r.store]
      ELSE IF ~r.found THEN [status |-> 404, store |-> r.store]
      ELSE [status |-> 200, store |-> r.store, deletedId |-> id]

(* A JSON value of the bulk body is tagged with its kind: "array" or "object"  *)
(* carry a value, "string" is any value that is neither.                       *)
IdsRejected(body) ==
  \/ ~Has(body, "ids")
  \/ body.ids.kind # "array"
  \/ Len(body.ids.value) = 0

UpdatesRejected(body) ==
  \/ ~Has(body, "updates")
  \/ DOMAIN body.updates = {}

(* Mutant: the handler accepts an empty list of ids. *)
BulkStatusHandlerAcceptsEmpty(sch, st, body, stamp, up) ==
  IF ~Has(body, "ids") \/ body.ids.kind # "array" THEN [status |-> 400, store |-> st]
  ELSE IF UpdatesRejected(body) THEN [status |-> 400, store |-> st]
  ELSE LET r == UpdateMany(sch, st, body.ids.value,
                           SetFields(Field("updatedAt", stamp), body.updates), up)
       IN  IF r.error # "none" THEN [status |-> 400, store |-> r.store, error |-> r.error]
           ELSE [status |-> 200, store |-> r.store,
                 data |-> [matched |-> r.matched, modified |-> r.modified]]

(* PATCH /bulk/status *)
BulkStatusHandler(sch, st, body, stamp, up) ==
  IF IdsRejected(body) THEN [status |-> 400, store |-> st]
  ELSE IF UpdatesRejected(body) THEN [status |-> 400, store |-> st]
  ELSE LET r == UpdateMany(sch, st, body.ids.value,
                           SetFields(Field("updatedAt", stamp), body.updates), up)
       IN  IF r.error # "none" THEN [status |-> 400, store |-> r.store, error |-> r.error]
           ELSE [status |-> 200, store |-> r.store,
                 data |-> [matched |-> r.matched, modified |-> r.modified]]

(***************************************************************************)
(* GET /: the query parameters, the filter, the page and the count.        *)
(***************************************************************************)
Digits == <<"0", "1", "2", "3", "4", "5", "6", "7", "8", "9">>

IsDigit(c) == \E i \in DOMAIN Digits : Digits[i] = c

DigitValue(c) == (CHOOSE i \in DOMAIN Digits : Digits[i] = c) - 1

(* The value of the leading digits of s, acc being the value read so far. *)
RECURSIVE LeadingDigits(_, _)
LeadingDigits(s, acc) ==
  IF s # <<>> /\ IsDigit(Head(s))
  THEN LeadingDigits(Tail(s), 10 * acc + DigitValue(Head(s)))
  ELSE acc

(* parseInt(text): an optional sign and the leading digits; NaN when the   *)
(* text has no leading digit.                                              *)
ParseInt(text) ==
  LET t == TrimStart(text)
      neg == t # <<>> /\ Head(t) = "-"
      body == IF t # <<>> /\ Head(t) \in {"-", "+"} THEN Tail(t) ELSE t
  IN  IF body = <<>> \/ ~IsDigit(Head(body)) THEN [nan |-> TRUE, n |-> 0]
      ELSE [nan |-> FALSE,
            n |-> IF neg THEN 0 - LeadingDigits(body, 0) ELSE LeadingDigits(body, 0)]

(* const { page = 1, limit = 10 } = req.query, then parseInt. *)
PageNumber(query) ==
  IF Has(query, "page") THEN ParseInt(query.page) ELSE [nan |-> FALSE, n |-> 1]

LimitNumber(query) ==
  IF Has(query, "limit") THEN ParseInt(query.limit) ELSE [nan |-> FALSE, n |-> 10]

(* The query parameters that become equality conditions, with their paths. *)
FilterParams == {"type", "stage", "source", "status", "priority", "assignedTo"}

PathOf(param) == IF param = "type" THEN "submissionType" ELSE param

(* The filter object: equality conditions of the truthy parameters, and    *)
(* the search text when truthy.                                            *)
BuildFilter(query) ==
  [equals |-> [f \in {PathOf(q) : q \in {q \in FilterParams : TruthyValue(query, q)}} |->
                 IF f = "submissionType" THEN query["type"] ELSE query[f]],
   search |-> IF Truthy(query, "search") THEN <<query.search>> ELSE <<>>]

(* A $regex pattern of literal characters and "." compiles; one with an    *)
(* unclosed "(" does not.                                                  *)
RegexCompiles(p) == \A i \in DOMAIN p : p[i] # "("

(* { $regex: p, $options: 'i' } on a string: p matches at some position,   *)
(* "." matching any character and a letter matching in either case.        *)
RegexMatches(str, p) ==
  \E i \in 0..(Len(str) - Len(p)) :
    \A j \in DOMAIN p : p[j] = "." \/ LowerChar(str[i + j]) = LowerChar(p[j])

SearchPaths == {"name", "email", "message"}

(* The setters of a string path run on a condition's value as well. *)
CastCondition(f, v) == IF f \in TrimPaths THEN Trim(v) ELSE v

(* Whether a stored document satisfies the filter. *)
MatchesFilter(doc, filter) ==
  /\ \A f \in DOMAIN filter.equals :
       Has(doc, f) /\ doc[f] = CastCondition(f, filter.equals[f])
  /\ filter.search # <<>> =>
       \E f \in SearchPaths : Has(doc, f) /\ RegexMatches(doc[f], filter.search[1])

FilterCompiles(filter) == filter.search # <<>> => RegexCompiles(filter.search[1])

Matching(st, filter) == {id \in DOMAIN st : MatchesFilter(st[id], filter)}

Min(a, b) == IF a <= b THEN a ELSE b

(* The documents a sorted find may return for a skip and a limit: the      *)
(* store fixes no order among documents of equal createdAt, so any window  *)
(* of an order by descending createdAt.  A limit of 0 is no limit and a    *)
(* negative limit is its absolute value.                                   *)
Windows(st, ids, skip, limit) ==
  LET n == Cardinality(ids)
      room == IF limit = 0 THEN n ELSE IF limit < 0 THEN 0 - limit ELSE limit
      before == Min(skip, n)
      size == Min(room, n - before)
      NotOlder(A, B) == \A a \in A, b \in B : st[a].createdAt >= st[b].createdAt
  IN  {W \in SUBSET ids :
         /\ Cardinality(W) = size
         /\ \E A \in SUBSET (ids \ W) :
              /\ Cardinality(A) = before
              /\ NotOlder(A, W) /\ NotOlder(W, ids \ (A \cup W))
              /\ NotOlder(A, ids \ (A \cup W))}

(* Submission.find(filter).sort('-createdAt').limit(limit).skip(skip):     *)
(* [error, pages], pages being the sets of documents it may return.  The   *)
(* store rejects a pattern that does not compile, a negative skip and a    *)
(* skip or limit that is not a number.                                     *)
Find(st, filter, page, limit, up) ==
  IF ~up THEN [error |-> "storage", pages |-> {}]
  ELSE IF ~FilterCompiles(filter) THEN [error |-> "regex", pages |-> {}]
  ELSE IF page.nan \/ limit.nan \/ (page.n - 1) * limit.n < 0
  THEN [error |-> "BadValue", pages |-> {}]
  ELSE [error |-> "none",
        pages |-> Windows(st, Matching(st, filter), (page.n - 1) * limit.n, limit.n)]

(* Submission.countDocuments(filter) *)
CountDocuments(st, filter, up) ==
  IF ~up THEN [error |-> "storage", n |-> 0]
  ELSE IF ~FilterCompiles(filter) THEN [error |-> "regex", n |-> 0]
  ELSE [error |-> "none", n |-> Cardinality(Matching(st, filter))]

(* A JavaScript number that may be NaN or an infinity. *)
Number(n) == [kind |-> "number", value |-> n]

(* Math.ceil(a / b) for a >= 0. *)
CeilOfQuotient(a, b) ==
  IF b = 0 THEN [kind |-> IF a = 0 THEN "NaN" ELSE "Infinity", value |-> 0]
  ELSE IF b > 0 THEN Number((a + b - 1) \div b)
  ELSE Number(0 - (a \div (0 - b)))

(* a < b for a number a. *)
LessThan(a, b) ==
  IF b.kind = "number" THEN a < b.value ELSE b.kind = "Infinity"

(* The response of GET / to the results of its page query and of its count *)
(* query: the responses the handler may give.                              *)
ListAnswer(query, found, count) ==
  LET pageNumber == PageNumber(query)
      limitNumber == LimitNumber(query)
      totalPages == CeilOfQuotient(count.n, limitNumber.n)
      used == [page |-> pageNumber, limit |-> limitNumber,
               skip |-> (pageNumber.n - 1) * limitNumber.n]
  IN  IF found.error # "none" \/ count.error # "none"
      THEN {[status |-> 500, used |-> used]}
      ELSE {[status |-> 200, used |-> used, submissions |-> W,
             pagination |-> [currentPage |-> pageNumber.n,
                             totalPages |-> totalPages,
                             totalItems |-> count.n,
                             itemsPerPage |-> limitNumber.n,
                             hasNextPage |-> LessThan(pageNumber.n, totalPages),
                             hasPrevPage |-> pageNumber.n > 1]] :
            W \in found.pages}

(* GET / with the page and the count read from the same store. *)
ListHandler(st, query, up) ==
  ListAnswer(query,
             Find(st, BuildFilter(query), PageNumber(query), LimitNumber(query), up),
             CountDocuments(st, BuildFilter(query), up))

(***************************************************************************)
(* GET /stats/dashboard: the overview.                                     *)
(***************************************************************************)
(* $match { 'metadata.processingErrors.0': { $exists: true } }, counted. *)
TotalWithErrors(st) ==
  Cardinality({id \in DOMAIN st :
                 /\ Has(st[id], "metadata")
                 /\ Has(st[id].metadata, "processingErrors")
                 /\ Len(st[id].metadata.processingErrors) > 0})

(* Mutant: the rate is cut after two decimals instead of rounded. *)
ErrorRateTruncated(errorCount, total) ==
  IF total > 0 THEN (errorCount * 10000) \div total ELSE 0

(* parseFloat((errorCount / total * 100).toFixed(2)), in hundredths of a   *)
(* percent: toFixed rounds to the nearest hundredth, a half upwards.       *)
ErrorRate(errorCount, total) ==
  IF total > 0 THEN (2 * errorCount * 10000 + total) \div (2 * total) ELSE 0

(* The clock's unit: one week, the window of submissionsThisWeek. *)
Week == 1

(* countDocuments({ createdAt: { $gte: oneWeekAgo } }) *)
CountSince(st, oneWeekAgo) ==
  Cardinality({id \in DOMAIN st : st[id].createdAt >= oneWeekAgo})

(* The value a $group reads at a path: null where the document has none. *)
GroupKey(doc, path) == IF Has(doc, path) THEN doc[path] ELSE "null"

GroupMembers(st, path, v) == {id \in DOMAIN st : GroupKey(st[id], path) = v}

GroupKeys(st, path) == {GroupKey(st[id], path) : id \in DOMAIN st}

(* Mutant: a null group is always emitted. *)
GroupWithNull(st, path) ==
  {[_id |-> v, count |-> Cardinality(GroupMembers(st, path, v))] :
     v \in GroupKeys(st, path) \cup {"null"}}

(* { $group: { _id: '$<path>', count: { $sum: 1 } } } *)
Group(st, path) ==
  {[_id |-> v, count |-> Cardinality(GroupMembers(st, path, v))] :
     v \in GroupKeys(st, path)}

Max(S) == CHOOSE m \in S : \A x \in S : x <= m

(* The group stage of the breakdown by type, with $max of createdAt. *)
GroupByType(st) ==
  {[_id |-> v, count |-> Cardinality(GroupMembers(st, "submissionType", v)),
    latestSubmission |->
      Max({st[id].createdAt : id \in GroupMembers(st, "submissionType", v)})] :
     v \in GroupKeys(st, "submissionType")}

(* Mutant: the groups by ascending count. *)
SortByCountAscending(groups) ==
  LET n == Cardinality(groups)
  IN  {s \in [1..n -> groups] :
         /\ \A i, j \in 1..n : i # j => s[i] # s[j]
         /\ \A i \in 1..(n - 1) : s[i].count <= s[i + 1].count}

(* { $sort: { count: -1 } }: the orders the stage may give, groups of      *)
(* equal count coming in any order.                                        *)
SortByCount(groups) ==
  LET n == Cardinality(groups)
  IN  {s \in [1..n -> groups] :
         /\ \A i, j \in 1..n : i # j => s[i] # s[j]
         /\ \A i \in 1..(n - 1) : s[i].count >= s[i + 1].count}

(* The number of the five most recent submissions asked for. *)
RecentLimit == 5

(* find().sort({ createdAt: -1 }).limit(5): the sets it may return. *)
Recent(st) == Windows(st, DOMAIN st, 0, RecentLimit)

(* Mutant: the rate divides the total by the error count. *)
OverviewInvertsRate(totalSubmissions, errorCount, submissionsThisWeek) ==
  [totalSubmissions |-> totalSubmissions,
   submissionsThisWeek |-> submissionsThisWeek,
   errorRate |-> ErrorRate(totalSubmissions, errorCount),
   submissionsWithErrors |-> errorCount]

(* The overview of the response. *)
Overview(totalSubmissions, errorCount, submissionsThisWeek) ==
  [totalSubmissions |-> totalSubmissions,
   submissionsThisWeek |-> submissionsThisWeek,
   errorRate |-> ErrorRate(errorCount, totalSubmissions),
   submissionsWithErrors |-> errorCount]

(* The response composed of the results of the eight queries. *)
DashboardAnswer(totalSubmissions, typeStats, stageStats, statusStats, recentSubmissions, errorCount, priorityStats, submissionsThisWeek) ==
  [status |-> 200,
   overview |-> Overview(totalSubmissions, errorCount, submissionsThisWeek),
   breakdowns |-> [byType |-> typeStats, byStage |-> stageStats,
                   byStatus |-> statusStats, byPriority |-> priorityStats],
   recent |-> recentSubmissions]

(* GET /stats/dashboard with every query reading the same store at time    *)
(* today: the responses the handler may give.                              *)
DashboardHandler(st, today, up) ==
  IF ~up THEN {[status |-> 500]}
  ELSE {DashboardAnswer(Cardinality(DOMAIN st), typeStats, stageStats, statusStats,
                        recentSubmissions, TotalWithErrors(st), priorityStats,
                        CountSince(st, today - Week)) :
          typeStats \in SortByCount(GroupByType(st)),
          stageStats \in SortByCount(Group(st, "stage")),
          statusStats \in SortByCount(Group(st, "status")),
          recentSubmissions \in Recent(st),
          priorityStats \in SortByCount(Group(st, "priority"))}

(***************************************************************************)
(* The router: routes in the order the file registers them; a request goes *)
(* to the first route whose method and pattern match its path.             *)
(***************************************************************************)
Routes ==
  << [method |-> "GET", pattern |-> <<>>, handler |-> "list"],
     [method |-> "GET", pattern |-> <<":id">>, handler |-> "getById"],
     [method |-> "POST", pattern |-> <<>>, handler |-> "create"],
     [method |-> "PUT", pattern |-> <<":id">>, handler |-> "put"],
     [method |-> "PATCH", pattern |-> <<":id", "status">>, handler |-> "patchStatus"],
     [method |-> "DELETE", pattern |-> <<":id">>, handler |-> "delete"],
     [method |-> "GET", pattern |-> <<"type", ":type">>, handler |-> "byType"],
     [method |-> "GET", pattern |-> <<"stats", "dashboard">>, handler |-> "dashboard"],
     [method |-> "PATCH", pattern |-> <<"bulk", "status">>, handler |-> "bulkStatus"] >>

IsParam(seg) == seg \in {":id", ":type"}

Matches(route, method, path) ==
  /\ route.method = method
  /\ Len(route.pattern) = Len(path)
  /\ \A i \in DOMAIN path : IsParam(route.pattern[i]) \/ route.pattern[i] = path[i]

(* The index of the route that handles the request, 0 when none does. *)
Dispatch(method, path) ==
  LET hits == {i \in DOMAIN Routes : Matches(Routes[i], method, path)}
  IN  IF hits = {} THEN 0 ELSE CHOOSE i \in hits : \A j \in hits : i <= j

HandlerOf(method, path) ==
  IF Dispatch(method, path) = 0 THEN "none" ELSE Routes[Dispatch(method, path)].handler

(* The handler of a PATCH request with a two-segment path; req.params.id is *)
(* the first segment when the route has the :id parameter.                  *)
PatchHandler(sch, st, path, body, stamp, up) ==
  IF HandlerOf("PATCH", path) = "patchStatus"
  THEN PatchStatusHandler(sch, st, path[1], body, stamp, up)
  ELSE IF HandlerOf("PATCH", path) = "bulkStatus"
  THEN BulkStatusHandler(sch, st, body, stamp, up)
  ELSE [status |-> 404, store |-> st]

(***************************************************************************)
(* Request inputs.                                                         *)
(***************************************************************************)
NameJo == <<" ", "J", "o", " ">>

Blank == <<" ">>

EmailJo == <<" ", "J", "O", "@", "X", ".", "c", "o">>

MsgHello == <<"h", "e", "l", "l", "o">>

MsgAsap == <<"c", "a", "l", "l", " ", "A", "S", "A", "P">>

MsgUrgent == <<"U", "r", "g", "e", "n", "t", "!">>

MsgEmergency == <<"a", "n", " ", "E", "M", "E", "R", "G", "E", "N", "C", "Y">>

MsgImmediately == <<"I", "m", "m", "e", "d", "i", "a", "t", "e", "l", "y">>

MsgCrush == <<"c", "r", "u", "s", "h">>

MsgNearMiss == <<"u", "r", "g", "e", " ", "r", "u", "s", " ", "h">>

DateText == "2025-01-15 10:30:00 EST"

(* A well-formed create body, as the n8n parser sends it. *)
EmailJane == <<"J", "A", "N", "E", "@", "X", ".", "C", "O", "M", " ">>

StaffSam == <<"s", "a", "m">>

BaseBody == [name |-> NameJo, email |-> EmailJo, dateOfFirstContact |-> DateText]

ClientStamps == [createdAt |-> ClientDate, updatedAt |-> ClientDate]

(* Create bodies of the lifecycle specification. *)
LifecycleCreateBodies == {BaseBody, Without(BaseBody, "email")}

(* Create bodies of the time specification. *)
TimedCreateBodies == {BaseBody, SetFields(ClientStamps, BaseBody)}

TriggerTexts == {MsgAsap, MsgUrgent, MsgEmergency, MsgImmediately, MsgCrush}

PlainTexts == {<<>>, MsgHello, MsgNearMiss}

Priorities == {"", "low", "urgent", "critical"}

(* Create bodies of the create specification: every message without a      *)
(* priority; a plain and an urgent message with every priority, and with a *)
(* metadata block with and without a tag list; name or email absent,       *)
(* empty or blank; a required date absent; a status outside its enum; a    *)
(* body naming the staff member the record is assigned to.                 *)
CreateBodies ==
  {SetFields(m, BaseBody) : m \in Opt("message", TriggerTexts \cup PlainTexts)}
  \cup {SetFields(m, SetFields(pr, BaseBody)) :
          m \in Opt("message", {MsgHello, MsgAsap}), pr \in Opt("priority", Priorities)}
  \cup {SetFields(m, SetFields(pr, SetFields(x, BaseBody))) :
          m \in Opt("message", {MsgHello, MsgAsap}), pr \in Opt("priority", {"low"}),
          x \in {Field("metadata", EmptyRec), Field("metadata", [tags |-> <<"vip">>])}}
  \cup {SetFields(n, SetFields(Field("message", MsgHello), Without(BaseBody, "name"))) :
          n \in Opt("name", {<<>>, Blank})}
  \cup {SetFields(e, Without(BaseBody, "email")) : e \in Opt("email", {<<>>, Blank})}
  \cup {Without(BaseBody, "dateOfFirstContact"),
        SetFields(Field("status", "bogus"), BaseBody),
        SetFields(Field("assignedTo", StaffSam), BaseBody),
        SetFields(Field("email", EmailJane), BaseBody)}

PutBodies ==
  {[createdAt |-> ClientDate, updatedAt |-> ClientDate],
   [name |-> NameJo, email |-> EmailJo],
   [priority |-> "bogus"]}

PatchBodies ==
  {EmptyRec,
   [stage |-> "Quote Sent", updatedAt |-> ClientDate, message |-> MsgHello],
   [status |-> "bogus"]}

(* Bodies of partial status updates in flight together: a stage, a status, *)
(* both, and a status outside its enum.                                    *)
RacingPatchBodies ==
  {[stage |-> "Quote Sent"], [status |-> "archived"],
   [stage |-> "Negotiation", status |-> "in_progress"], [status |-> "bogus"]}

RequestIds == ObjectIds \cup {"bulk"}

(* The :id of PATCH /:id/status requests; "abc" is not an ObjectId. *)
PatchIds == ObjectIds \cup {"abc"}

ArrayOf(l) == [kind |-> "array", value |-> l]

ArchiveUpdates == [status |-> "archived", updatedAt |-> ClientDate]

(* Bulk bodies: ids absent, not an array, empty; updates absent, empty;    *)
(* one listed id; two stored ids and one the store never hands out.        *)
BulkBodies ==
  {[updates |-> ArchiveUpdates],
   [ids |-> [kind |-> "string", value |-> <<>>], updates |-> ArchiveUpdates],
   [ids |-> ArrayOf(<<>>), updates |-> ArchiveUpdates],
   [ids |-> ArrayOf(<<IdNames[1]>>)],
   [ids |-> ArrayOf(<<IdNames[1]>>), updates |-> EmptyRec],
   [ids |-> ArrayOf(<<IdNames[1]>>), updates |-> ArchiveUpdates],
   [ids |-> ArrayOf(<<IdNames[1], IdNames[2], IdNames[MaxRecords + 1]>>),
    updates |-> ArchiveUpdates]}

(* A bulk body whose updates carry a status outside the enum. *)
BulkBogusBody ==
  [ids |-> [kind |-> "array", value |-> <<IdNames[1]>>], updates |-> [status |-> "bogus"]]

(* Bulk bodies of the time specification. *)
TimedBulkBodies ==
  {[ids |-> [kind |-> "array", value |-> <<IdNames[1]>>],
    updates |-> [status |-> "archived", updatedAt |-> ClientDate]],
   [ids |-> [kind |-> "array", value |-> <<IdNames[1]>>]]}

(* Inputs of the query specification. *)
NameAnn == <<"A", "n", "n">>

EmailAnn == <<"a", "n", "n", "@", "y", ".", "i", "o">>

(* Create bodies of the query specification: Jo; Jo archived; Ann with a   *)
(* message, priority high and a processing error.                         *)
QueryCreateBodies ==
  {BaseBody,
   SetFields(Field("status", "archived"), BaseBody),
   [name |-> NameAnn, email |-> EmailAnn, dateOfFirstContact |-> DateText,
    message |-> MsgHello, priority |-> "high",
    metadata |-> [processingErrors |-> <<"parse">>]]}

(* Create bodies of the specifications with requests in flight: Jo, and    *)
(* Ann with a processing error.                                            *)
RacedCreateBodies == {body \in QueryCreateBodies : ~Has(body, "status")}

SearchJo == <<"J", "O">>

(* A pattern that matches "jo@" as a regular expression only. *)
SearchDot == <<"j", ".", "@">>

(* A pattern that does not compile. *)
SearchParen == <<"(">>

SearchNone == <<"z", "z">>

(* Pages and limits, with no filter. *)
PageQueries ==
  {EmptyRec,
   [limit |-> <<"1">>], [limit |-> <<"1">>, page |-> <<"2">>],
   [limit |-> <<"1">>, page |-> <<"3">>],
   [limit |-> <<"2">>, page |-> <<"1">>], [limit |-> <<"2">>, page |-> <<"2">>],
   [limit |-> <<"0">>], [limit |-> <<"0">>, page |-> <<"0">>],
   [limit |-> <<"-", "1">>], [page |-> <<"0">>],
   [limit |-> <<"1">>, page |-> <<"-", "1">>]}

(* Filters, alone and combined. *)
FilterQueries ==
  {[status |-> "archived"], [status |-> "spam"], [type |-> "moving"],
   [priority |-> "medium"], [stage |-> "Initial Demand"], [source |-> "Website Form"],
   [assignedTo |-> <<"s", "a", "m">>],
   [search |-> SearchJo, limit |-> <<"5">>, page |-> <<"1">>],
   [search |-> SearchDot], [search |-> SearchParen], [search |-> SearchNone],
   [status |-> "archived", search |-> SearchJo],
   [search |-> SearchJo, limit |-> <<"1">>, page |-> <<"2">>]}

(* Queries of the list race specification: pages of one and two records,  *)
(* a status filter, and the limits and the page the handler does not       *)
(* clamp.                                                                  *)
RacedQueries ==
  {EmptyRec,
   [limit |-> <<"1">>], [limit |-> <<"1">>, page |-> <<"2">>],
   [limit |-> <<"2">>, page |-> <<"1">>], [limit |-> <<"2">>, page |-> <<"2">>],
   [limit |-> <<"0">>], [limit |-> <<"-", "1">>], [page |-> <<"0">>],
   [source |-> "Website Form"]}

ListQueries == PageQueries \cup FilterQueries

(***************************************************************************)
(* Actions.  stamp is the clock reading the handler took before it awaited *)
(* the store; the store applies the operation at time now >= stamp.  resp  *)
(* is the last request with its answer.                                    *)
(***************************************************************************)
Stamps == {t \in 0..now : now - t <= MaxLag}

(* cap bounds the records the model creates; a request that stores nothing *)
(* is always possible.                                                    *)
Create(body, stamp, up, cap) ==
  LET r == CreateHandler(schema, body, stamp, up)
      id == IdNames[nextId]
  IN  /\ r.status = 201 => nextId <= cap
      /\ HandlerOf("POST", <<>>) = "create"
      /\ IF r.status = 201
         THEN /\ store' = SetFields(Field(id, r.doc), store)
              /\ nextId' = nextId + 1
              /\ resp' = [op |-> "create", req |-> body, up |-> up, stamp |-> stamp,
                          status |-> 201, id |-> id]
         ELSE /\ UNCHANGED <<store, nextId>>
              /\ resp' = [op |-> "create", req |-> body, up |-> up,
                          status |-> r.status, error |-> r.error]
      /\ UNCHANGED <<schema, inflight, now>>

GetById(id, up) ==
  LET r == GetByIdHandler(store, id, up)
  IN  /\ HandlerOf("GET", <<id>>) = "getById"
      /\ resp' = [op |-> "get", id |-> id, up |-> up, status |-> r.status]
      /\ UNCHANGED <<schema, inflight, store, nextId, now>>

Replace(id, body, stamp, up) ==
  LET r == PutHandler(schema, store, id, body, stamp, up)
  IN  /\ HandlerOf("PUT", <<id>>) = "put"
      /\ store' = r.store
      /\ resp' = IF r.status = 200
                 THEN [op |-> "put", id |-> id, req |-> body, up |-> up,
                       stamp |-> stamp, status |-> 200]
                 ELSE SetFields(
                        IF Has(r, "error") THEN Field("error", r.error) ELSE EmptyRec,
                        [op |-> "put", id |-> id, req |-> body, up |-> up,
                         status |-> r.status])
      /\ UNCHANGED <<schema, inflight, nextId, now>>

(* A PATCH request; op names the request, handler the route that served it. *)
Patch(op, path, body, stamp, up) ==
  LET r == PatchHandler(schema, store, path, body, stamp, up)
  IN  /\ store' = r.store
      /\ resp' = SetFields(
           IF r.status = 200 THEN Field("stamp", stamp) ELSE EmptyRec,
           SetFields(
             IF Has(r, "data") THEN Field("data", r.data)
             ELSE IF Has(r, "error") THEN Field("error", r.error) ELSE EmptyRec,
             [op |-> op, handler |-> HandlerOf("PATCH", path), id |-> path[1],
              req |-> body, up |-> up, status |-> r.status]))
      /\ UNCHANGED <<schema, inflight, nextId, now>>

(* PATCH /<id>/status *)
PatchStatus(id, body, stamp, up) == Patch("patchStatus", <<id, "status">>, body, stamp, up)

(* PATCH /bulk/status *)
BulkStatus(body, stamp, up) == Patch("bulkStatus", <<"bulk", "status">>, body, stamp, up)

Delete(id, up) ==
  LET r == DeleteHandler(store, id, up)
  IN  /\ HandlerOf("DELETE", <<id>>) = "delete"
      /\ store' = r.store
      /\ resp' = SetFields(
           IF Has(r, "deletedId") THEN Field("deletedId", r.deletedId) ELSE EmptyRec,
           [op |-> "delete", id |-> id, up |-> up, status |-> r.status])
      /\ UNCHANGED <<schema, inflight, nextId, now>>

(* GET / with the query parameters of query. *)
List(query, up) ==
  /\ HandlerOf("GET", <<>>) = "list"
  /\ \E r \in ListHandler(store, query, up) :
       resp' = SetFields(r, [op |-> "list", query |-> query, up |-> up])
  /\ UNCHANGED <<schema, inflight, store, nextId, now>>

(* GET /stats/dashboard *)
Dashboard(up) ==
  /\ HandlerOf("GET", <<"stats", "dashboard">>) = "dashboard"
  /\ \E r \in DashboardHandler(store, now, up) :
       resp' = SetFields(r, [op |-> "dashboard", up |-> up])
  /\ UNCHANGED <<schema, inflight, store, nextId, now>>

Tick ==
  /\ now < MaxTime
  /\ now' = now + 1
  /\ UNCHANGED <<schema, inflight, store, nextId, resp>>

(***************************************************************************)
(* Requests in flight: a handler up to its await of the store, and the     *)
(* store's answer to it.  Other requests may be served in between.         *)
(***************************************************************************)
CallNames == <<"a", "b", "c">>

Calls == {CallNames[i] : i \in 1..MaxCalls}

Sent == {c \in DOMAIN inflight : inflight[c].phase = "sent"}

Answered == {c \in DOMAIN inflight : inflight[c].phase = "answered"}

(* PATCH /<id>/status up to its await: the handler has read the body and   *)
(* the clock and has sent its update.  overlap tells that another call was *)
(* awaiting the store at that moment.                                      *)
PatchSend(c, id, body) ==
  /\ ~Has(inflight, c)
  /\ HandlerOf("PATCH", <<id, "status">>) = "patchStatus"
  /\ inflight' = SetFields(Field(c, [op |-> "patchStatus", phase |-> "sent", id |-> id,
                                     req |-> body, stamp |-> now,
                                     overlap |-> Sent # {}]),
                           inflight)
  /\ UNCHANGED <<schema, store, nextId, now, resp>>

(* The store applies the update of call c and the handler answers; turn is *)
(* the place of the call in the order the store served the calls.          *)
PatchAnswer(c) ==
  /\ c \in Sent
  /\ LET call == inflight[c]
         r == PatchStatusHandler(schema, store, call.id, call.req, call.stamp, TRUE)
     IN  /\ store' = r.store
         /\ resp' = [op |-> "patchStatus", handler |-> "patchStatus", id |-> call.id,
                     req |-> call.req, up |-> TRUE, status |-> r.status]
         /\ inflight' = SetFields(Field(c, [op |-> "patchStatus", phase |-> "answered",
                                            id |-> call.id, req |-> call.req,
                                            stamp |-> call.stamp, overlap |-> call.overlap,
                                            status |-> r.status,
                                            turn |-> Cardinality(Answered) + 1]),
                                  inflight)
  /\ UNCHANGED <<schema, nextId, now>>

(* What a request in flight compares the store with, to tell whether a    *)
(* record was created or deleted since its first query: creates move       *)
(* nextId and deletes shrink the set of ids.                               *)
Snapshot == [nextId |-> nextId, ids |-> DOMAIN store]

(* The queries of the dashboard's Promise.all whose results the overview   *)
(* uses; the store serves them one at a time in any order.  The breakdown  *)
(* and recent queries of the same Promise.all feed no field of the         *)
(* overview and are left out of the request in flight.                     *)
OverviewQueries == {"totalSubmissions", "errorStats"}

(* The store serves query q of the dashboard request c. *)
DashboardQuery(c, q) ==
  LET begun == Has(inflight, c)
      results == IF begun THEN inflight[c].results ELSE EmptyRec
      result == IF q = "totalSubmissions" THEN Cardinality(DOMAIN store)
                ELSE TotalWithErrors(store)
  IN  /\ HandlerOf("GET", <<"stats", "dashboard">>) = "dashboard"
      /\ begun => inflight[c].op = "dashboard"
      /\ ~Has(results, q)
      /\ inflight' = SetFields(
           Field(c, [op |-> "dashboard", phase |-> "sent",
                     results |-> SetFields(Field(q, result), results),
                     seen |-> IF begun THEN inflight[c].seen ELSE Snapshot,
                     quiet |-> begun => inflight[c].quiet /\ inflight[c].seen = Snapshot]),
           inflight)
      /\ UNCHANGED <<schema, store, nextId, now, resp>>

(* After the Promise.all the handler reads the clock, counts the           *)
(* submissions of the week and answers.                                    *)
DashboardWeek(c) ==
  /\ Has(inflight, c) /\ inflight[c].op = "dashboard"
  /\ DOMAIN inflight[c].results = OverviewQueries
  /\ resp' = [op |-> "dashboard", up |-> TRUE, status |-> 200,
              overview |-> Overview(inflight[c].results.totalSubmissions,
                                    inflight[c].results.errorStats,
                                    CountSince(store, now - Week)),
              quiet |-> inflight[c].quiet /\ inflight[c].seen = Snapshot]
  /\ inflight' = Without(inflight, c)
  /\ UNCHANGED <<schema, store, nextId, now>>

(* GET / up to its second await: the store serves the page query.  A      *)
(* query the store rejects is answered at once.                            *)
ListFind(c, query) ==
  LET found == Find(store, BuildFilter(query), PageNumber(query), LimitNumber(query), TRUE)
  IN  /\ HandlerOf("GET", <<>>) = "list"
      /\ ~Has(inflight, c)
      /\ IF found.error # "none"
         THEN /\ \E r \in ListAnswer(query, found, CountDocuments(store, EmptyRec, TRUE)) :
                   resp' = SetFields(r, [op |-> "list", query |-> query, up |-> TRUE,
                                         quiet |-> TRUE])
              /\ UNCHANGED inflight
         ELSE /\ \E W \in found.pages :
                   inflight' = SetFields(Field(c, [op |-> "list", phase |-> "sent",
                                                   query |-> query, page |-> W,
                                                   seen |-> Snapshot]),
                                         inflight)
              /\ UNCHANGED resp
      /\ UNCHANGED <<schema, store, nextId, now>>

(* The store serves the count query of the list request c and the handler  *)
(* answers.                                                                *)
ListCount(c) ==
  /\ Has(inflight, c) /\ inflight[c].op = "list"
  /\ LET call == inflight[c]
         count == CountDocuments(store, BuildFilter(call.query), TRUE)
     IN  \E r \in ListAnswer(call.query, [error |-> "none", pages |-> {call.page}], count) :
           resp' = SetFields(r, [op |-> "list", query |-> call.query, up |-> TRUE,
                                 quiet |-> call.seen = Snapshot])
  /\ inflight' = Without(inflight, c)
  /\ UNCHANGED <<schema, store, nextId, now>>

Init ==
  /\ schema \in Schemas
  /\ store = EmptyRec
  /\ nextId = 1
  /\ now = 0
  /\ resp = [op |-> "none", status |-> 0]
  /\ inflight = EmptyRec

(* The lifecycle specification: every request against up to MaxRecords     *)
(* records, the store answering, the clock standing still.                 *)
Next ==
  \/ \E body \in LifecycleCreateBodies : Create(body, now, TRUE, MaxRecords)
  \/ \E id \in RequestIds : GetById(id, TRUE)
  \/ \E id \in RequestIds, body \in PutBodies : Replace(id, body, now, TRUE)
  \/ \E id \in PatchIds, body \in PatchBodies : PatchStatus(id, body, now, TRUE)
  \/ \E body \in BulkBodies : BulkStatus(body, now, TRUE)
  \/ \E id \in RequestIds : Delete(id, TRUE)

Spec == Init /\ [][Next]_vars

(* The create specification: creates alone, over the full set of bodies. *)
NextCreate ==
  \E body \in CreateBodies : Create(body, now, TRUE, MaxCreated)

SpecCreate == Init /\ [][NextCreate]_vars

(* The time specification: the writes to the first record as the clock     *)
(* advances, each write carrying a reading of the clock up to MaxLag old.  *)
NextTime ==
  \/ \E body \in TimedCreateBodies, stamp \in Stamps : Create(body, stamp, TRUE, 1)
  \/ \E body \in PutBodies, stamp \in Stamps : Replace(IdNames[1], body, stamp, TRUE)
  \/ \E body \in PatchBodies, stamp \in Stamps : PatchStatus(IdNames[1], body, stamp, TRUE)
  \/ \E body \in TimedBulkBodies, stamp \in Stamps : BulkStatus(body, stamp, TRUE)
  \/ Tick

SpecTime == Init /\ [][NextTime]_vars

(* The outage specification: every request with the store answering or    *)
(* not.                                                                    *)
NextOutage ==
  \/ \E body \in LifecycleCreateBodies, up \in BOOLEAN : Create(body, now, up, MaxCreated)
  \/ \E id \in RequestIds, up \in BOOLEAN : GetById(id, up)
  \/ \E id \in RequestIds, body \in PutBodies, up \in BOOLEAN : Replace(id, body, now, up)
  \/ \E id \in PatchIds, body \in PatchBodies, up \in BOOLEAN :
       PatchStatus(id, body, now, up)
  \/ \E body \in BulkBodies, up \in BOOLEAN : BulkStatus(body, now, up)
  \/ \E id \in RequestIds, up \in BOOLEAN : Delete(id, up)

SpecOutage == Init /\ [][NextOutage]_vars

(* The query specification: list and dashboard requests over up to         *)
(* MaxListed records created and deleted, with no write while a request is *)
(* served.                                                                 *)
NextQuery ==
  \/ \E body \in QueryCreateBodies : Create(body, now, TRUE, MaxListed)
  \/ \E id \in DOMAIN store : Delete(id, TRUE)
  \/ \E query \in ListQueries : List(query, TRUE)
  \/ Dashboard(TRUE)

SpecQuery == Init /\ [][NextQuery]_vars

(* The concurrent update specification: up to MaxCalls partial status     *)
(* updates of the first record in flight together, the store serving them  *)
(* one at a time in any order.                                             *)
NextPatches ==
  \/ Create(BaseBody, now, TRUE, 1)
  \/ \E c \in Calls, body \in RacingPatchBodies : PatchSend(c, IdNames[1], body)
  \/ \E c \in Calls : PatchAnswer(c)

SpecPatches == Init /\ [][NextPatches]_vars

(* The dashboard race specification: the queries of one dashboard request *)
(* served one at a time while records are created and deleted and the      *)
(* clock advances.                                                         *)
NextDashboardRace ==
  \/ \E body \in RacedCreateBodies : Create(body, now, TRUE, MaxRaced)
  \/ \E id \in DOMAIN store : Delete(id, TRUE)
  \/ \E q \in OverviewQueries : DashboardQuery(CallNames[1], q)
  \/ DashboardWeek(CallNames[1])
  \/ Tick

SpecDashboardRace == Init /\ [][NextDashboardRace]_vars

(* The list race specification: the page query and the count query of one *)
(* list request served one after the other while records are created and  *)
(* deleted.                                                                *)
NextListRace ==
  \/ \E body \in RacedCreateBodies : Create(body, now, TRUE, MaxRaced)
  \/ \E id \in DOMAIN store : Delete(id, TRUE)
  \/ \E query \in RacedQueries : ListFind(CallNames[1], query)
  \/ ListCount(CallNames[1])

SpecListRace == Init /\ [][NextListRace]_vars

(***************************************************************************)
(* What the claims speak of.                                               *)
(***************************************************************************)
(* The messages of CreateBodies that contain one of the five trigger words, *)
(* in some letter case, and those that contain none.                        *)
TriggerMessages == TriggerTexts

PlainMessages == PlainTexts

(* A create body that is valid but for its priority. *)
WellFormed(body) ==
  /\ Has(body, "name") /\ body.name = NameJo
  /\ Has(body, "email") /\ body.email = EmailJo
  /\ Has(body, "dateOfFirstContact")
  /\ ~Has(body, "status")

(* The tag list of a stored document. *)
DocTags(doc) == IF Has(doc, "metadata") THEN doc.metadata.tags ELSE doc.tags

HasTag(doc, t) == \E i \in DOMAIN DocTags(doc) : DocTags(doc)[i] = t

Created == resp.op = "create" /\ resp.status = 201

(* C1: a create that omits priority and whose message contains a trigger   *)
(* word in any letter case succeeds, and the stored record has priority    *)
(* urgent and the tag "auto-urgent".                                       *)
C1_UrgentStored ==
  (/\ resp.op = "create"
   /\ WellFormed(resp.req)
   /\ ~Has(resp.req, "priority")
   /\ Has(resp.req, "message") /\ resp.req.message \in TriggerMessages)
  => /\ resp.status = 201
     /\ store[resp.id].priority = "urgent"
     /\ HasTag(store[resp.id], "auto-urgent")

(* C2: a create that omits priority and whose message is absent or         *)
(* contains no trigger word stores priority medium and adds no             *)
(* "auto-urgent" tag.                                                      *)
C2_MediumStored ==
  (/\ Created
   /\ ~Has(resp.req, "priority")
   /\ (Has(resp.req, "message") => resp.req.message \in PlainMessages))
  => /\ store[resp.id].priority = "medium"
     /\ ~HasTag(store[resp.id], "auto-urgent")

C2_Witness ==
  /\ Created
  /\ ~Has(resp.req, "priority")
  /\ Has(resp.req, "message") /\ resp.req.message = MsgNearMiss
  /\ store[resp.id].priority = "medium"

(* The priority a create body determines: the supplied one, else the       *)
(* classifier's.                                                           *)
PriorityOf(body) ==
  IF Has(body, "priority") /\ body.priority # "" THEN body.priority
  ELSE IF Has(body, "message") /\ body.message \in TriggerMessages THEN "urgent"
  ELSE "medium"

(* C3: create never overrides a supplied priority: a create carrying a     *)
(* valid priority succeeds with that priority stored, whatever the         *)
(* message, and the stored priority of every create is a function of the   *)
(* body alone.                                                             *)
C3_SuppliedPriorityKept ==
  /\ (/\ resp.op = "create"
      /\ WellFormed(resp.req)
      /\ Has(resp.req, "priority") /\ resp.req.priority \in PriorityEnum(schema))
     => /\ resp.status = 201
        /\ store[resp.id].priority = resp.req.priority
  /\ Created => store[resp.id].priority = PriorityOf(resp.req)

C3_Witness ==
  /\ Created
  /\ Has(resp.req, "priority") /\ resp.req.priority = "low"
  /\ Has(resp.req, "message") /\ resp.req.message = MsgAsap
  /\ store[resp.id].priority = "low"

(* The name or email of a create body is missing, or empty after trimming. *)
LacksText(body, f) == ~Has(body, f) \/ body[f] \in {<<>>, Blank}

(* C4: a create whose name or email is missing or empty after trimming is  *)
(* answered 400 and leaves the stored records as they were.                *)
C4_MissingIdentityRejected ==
  [][(/\ resp'.op = "create"
      /\ LacksText(resp'.req, "name") \/ LacksText(resp'.req, "email"))
     => (resp'.status = 400 /\ store' = store)]_vars

C4_Witness ==
  /\ resp.op = "create"
  /\ LacksText(resp.req, "name")
  /\ Has(resp.req, "message")
  /\ resp.status = 400
  /\ store # EmptyRec

(* The ids a bulk body lists. *)
Listed(body) ==
  IF Has(body, "ids") /\ body.ids.kind = "array"
  THEN {body.ids.value[i] : i \in DOMAIN body.ids.value}
  ELSE {}

(* The records a successful write request addresses. *)
Targets(r, st) ==
  IF r.op = "bulkStatus" THEN Listed(r.req) \cap DOMAIN st ELSE {r.id}

Written(r) ==
  /\ r.op \in {"create", "put", "patchStatus", "bulkStatus"}
  /\ r.status \in {200, 201}

(* What the bulk handler does with a body when it is the handler called:   *)
(* every record it writes carries the handler's clock reading.             *)
BulkHandlerStamps ==
  \A body \in TimedBulkBodies :
    LET r == BulkStatusHandler(schema, store, body, now, TRUE)
    IN  r.status = 200 =>
          \A id \in Listed(body) \cap DOMAIN store : r.store[id].updatedAt = now

(* C5 as stated: every successful create, replace, partial or bulk status  *)
(* update sets updatedAt to the server's clock reading, never to a value   *)
(* the client sent, and strictly later than the record's previous          *)
(* updatedAt.                                                              *)
C5_UpdatedAtStrictlyLater ==
  [][Written(resp') =>
       \A id \in Targets(resp', store') :
         /\ store'[id].updatedAt = resp'.stamp
         /\ Has(store, id) => store'[id].updatedAt > store[id].updatedAt]_vars

(* C5 amended: every successful create, replace, partial or bulk status    *)
(* update sets updatedAt to the clock reading the server took while        *)
(* handling that request, never to a value the client sent; the reading    *)
(* need not be later than the record's previous updatedAt.                 *)
C5_UpdatedAtIsServerReading ==
  [][/\ Written(resp') =>
          \A id \in Targets(resp', store') :
            /\ store'[id].updatedAt = resp'.stamp
            /\ store'[id].updatedAt # ClientDate
     /\ BulkHandlerStamps]_vars

C5_Witness ==
  /\ resp.op = "put" /\ resp.status = 200
  /\ Has(resp.req, "updatedAt") /\ resp.req.updatedAt = ClientDate
  /\ resp.stamp = now - MaxLag
  /\ store[resp.id].updatedAt = resp.stamp

(* C6: createdAt is set once at creation: no replace, partial or bulk      *)
(* status update, whatever its body, changes the createdAt of a stored     *)
(* record.                                                                 *)
C6_CreatedAtNeverMutated ==
  [][\A id \in DOMAIN store \cap DOMAIN store' :
       store'[id].createdAt = store[id].createdAt]_vars

(* C7: delete of an existing id removes exactly that record and returns    *)
(* the id; get-by-id and delete of a well-formed id that matches no        *)
(* record, a deleted one included, answer 404 and leave the store as it    *)
(* was (the store answering).                                              *)
C7_DeleteRemovesOnce ==
  [][/\ (resp'.op = "delete" /\ Has(store, resp'.id))
          => /\ resp'.status = 200
             /\ resp'.deletedId = resp'.id
             /\ store' = Without(store, resp'.id)
     /\ (resp'.op \in {"get", "delete"} /\ IsObjectId(resp'.id) /\ ~Has(store, resp'.id))
          => /\ resp'.status = 404
             /\ store' = store]_vars

(* The first id was created and deleted, another record remains, and a     *)
(* repeated delete of the first id is answered 404.                        *)
C7_Witness ==
  /\ resp.op = "delete" /\ resp.id = IdNames[1] /\ resp.status = 404
  /\ nextId > 2
  /\ DOMAIN store = {IdNames[2]}

(* A bulk body the handler accepts: a non-empty list of ids and a          *)
(* non-empty updates mapping.                                              *)
BulkAccepted(body) ==
  /\ Listed(body) # {}
  /\ Has(body, "updates") /\ DOMAIN body.updates # {}

(* C8: PATCH /bulk/status is handled by the bulk status handler, not by    *)
(* the per-record handler with id "bulk": with a non-empty ids list and    *)
(* updates mapping it is answered success with data {matched, modified}.   *)
C8_BulkRouteReached ==
  resp.op = "bulkStatus" =>
    /\ resp.handler = "bulkStatus"
    /\ BulkAccepted(resp.req) => (resp.status = 200 /\ Has(resp, "data"))

(* C9: a bulk status update applies the updates to every stored record     *)
(* whose id is listed and to no other, reports matched = the number of     *)
(* listed ids that exist and modified <= matched, and raises no error for  *)
(* listed ids that match no record.                                        *)
C9_BulkAppliesToListed ==
  [][(resp'.op = "bulkStatus" /\ BulkAccepted(resp'.req))
       => /\ resp'.status = 200
          /\ resp'.data.matched = Cardinality(Listed(resp'.req) \cap DOMAIN store)
          /\ resp'.data.modified <= resp'.data.matched
          /\ \A id \in DOMAIN store :
               IF id \in Listed(resp'.req)
               THEN store'[id].status = resp'.req.updates.status
               ELSE store'[id] = store[id]]_vars

(* What the bulk handler answers to a body it must reject, when it is the  *)
(* handler called.                                                         *)
BulkHandlerRejects ==
  \A body \in BulkBodies :
    ~BulkAccepted(body) =>
      LET r == BulkStatusHandler(schema, store, body, now, TRUE)
      IN  r.status = 400 /\ r.store = store

(* C10: a bulk status update whose ids are missing, not a list or empty,   *)
(* or whose updates are missing or empty, is answered 400 and modifies no  *)
(* record.                                                                 *)
C10_BulkRejectsMalformed ==
  [][/\ (resp'.op = "bulkStatus" /\ ~BulkAccepted(resp'.req))
          => (resp'.status = 400 /\ store' = store)
     /\ BulkHandlerRejects]_vars

C10_Witness ==
  /\ resp.op = "bulkStatus"
  /\ Has(resp.req, "ids") /\ resp.req.ids.kind = "array" /\ resp.req.ids.value = <<>>
  /\ Has(resp.req, "updates") /\ DOMAIN resp.req.updates # {}
  /\ resp.status = 400
  /\ DOMAIN store = {IdNames[1], IdNames[2]}

(* The enumerated fields of every record of st hold enumerated values. *)
StoredEnumerated(sch, st) ==
  \A id \in DOMAIN st :
    /\ st[id].status \in StatusEnum
    /\ st[id].stage \in StageEnum
    /\ st[id].priority \in PriorityEnum(sch)

(* What the bulk handler leaves in the store when it is the handler called *)
(* with a status outside the enum.                                         *)
BulkHandlerKeepsEnums ==
  LET r == BulkStatusHandler(schema, store, BulkBogusBody, now, TRUE)
  IN  StoredEnumerated(schema, r.store) /\ (Has(store, IdNames[1]) => r.status = 400)

StatusFields == {"stage", "status", "priority", "assignedTo"}

(* The fields of the four that a body supplies with a non-empty value. *)
Supplied(body) ==
  {f \in StatusFields :
     Has(body, f) /\ (IF f = "assignedTo" THEN body[f] # <<>> ELSE body[f] # "")}

(* C12: a successful partial status update sets the fields among stage,    *)
(* status, priority and assignedTo that its body supplies, and updatedAt;  *)
(* every other field of the record, and every other record, is as before,  *)
(* whatever else the body carries; a body supplying none of the four       *)
(* changes nothing but updatedAt.                                          *)
C12_PatchFrame ==
  [][(resp'.op = "patchStatus" /\ resp'.status = 200)
       => /\ DOMAIN store' = DOMAIN store
          /\ \A id \in DOMAIN store \ {resp'.id} : store'[id] = store[id]
          /\ DOMAIN store'[resp'.id] = DOMAIN store[resp'.id] \cup Supplied(resp'.req)
          /\ \A f \in DOMAIN store[resp'.id] \ (Supplied(resp'.req) \cup {"updatedAt"}) :
               store'[resp'.id][f] = store[resp'.id][f]
          /\ \A f \in Supplied(resp'.req) : store'[resp'.id][f] = resp'.req[f]]_vars

(* A patch carrying stage, updatedAt and message has moved the stage of    *)
(* the second record and left the first as created.                        *)
C12_Witness ==
  /\ resp.op = "patchStatus" /\ resp.status = 200 /\ resp.id = IdNames[2]
  /\ Has(resp.req, "message") /\ Has(resp.req, "stage")
  /\ Has(store, IdNames[1]) /\ store[IdNames[1]].stage = "Initial Demand"
  /\ store[IdNames[2]].stage = "Quote Sent"
  /\ store[IdNames[2]].createdAt # ClientDate

(* C13: a replace of an existing record whose payload lacks name or email, *)
(* or has them empty, fails with a validation error and leaves the stored  *)
(* record unchanged; a replace with a valid payload of a well-formed id    *)
(* that matches no record is answered 404.                                 *)
C13_ReplaceValidatesPayload ==
  [][(resp'.op = "put" /\ IsObjectId(resp'.id))
       => /\ (Has(store, resp'.id)
                /\ (LacksText(resp'.req, "name") \/ LacksText(resp'.req, "email")))
               => (resp'.status = 400 /\ store' = store)
          /\ (~Has(store, resp'.id)
                /\ ~LacksText(resp'.req, "name") /\ ~LacksText(resp'.req, "email"))
               => (resp'.status = 404 /\ store' = store)]_vars

(* A request body that carries no value outside an enumerated set. *)
NoBogusValue(r) ==
  Has(r, "req") => \A f \in DOMAIN r.req \cap {"status", "stage", "priority"} :
                     r.req[f] # "bogus"

(* C14: for get-by-id, replace, partial status update and delete alike, a  *)
(* well-formed id that matches no record is answered 404 (the body, if     *)
(* any, being valid) and an id that is not in the identifier format is     *)
(* answered 400; neither changes the store.                                *)
C14_IdErrorsUniform ==
  [][resp'.op \in {"get", "put", "patchStatus", "delete"}
       => /\ (IsObjectId(resp'.id) /\ ~Has(store, resp'.id) /\ NoBogusValue(resp'))
               => (resp'.status = 404 /\ store' = store)
          /\ ~IsObjectId(resp'.id)
               => (resp'.status = 400 /\ store' = store)]_vars

(* What the bulk handler answers, when it is the handler called, to a     *)
(* request it accepts that was made while the store did not answer.        *)
BulkHandlerOutage ==
  (resp.op = "bulkStatus" /\ ~resp.up /\ BulkAccepted(resp.req))
    => BulkStatusHandler(schema, store, resp.req, now, FALSE).status = 500

(* C15: a create, replace, partial or bulk status update whose storage     *)
(* call fails because the store is unavailable is answered 500, not 400.   *)
C15_OutageIsServerFault ==
  /\ (/\ resp.op \in {"create", "put", "patchStatus", "bulkStatus"}
      /\ Has(resp, "error") /\ resp.error = "storage")
     => resp.status = 500
  /\ BulkHandlerOutage

(* k is the ceiling of a / L. *)
IsCeiling(k, a, L) ==
  /\ L # 0
  /\ L > 0 => (k * L >= a /\ (k - 1) * L < a)
  /\ L < 0 => (k * L <= a /\ (k - 1) * L > a)

Listed200 == resp.op = "list" /\ resp.status = 200

(* C16: in every list response with total matching items and limit L,      *)
(* totalPages = ceil(total / L), hasNextPage = (currentPage < totalPages), *)
(* hasPrevPage = (currentPage > 1), and totalItems is the number of stored *)
(* records that match the applied filter.                                  *)
C16_PaginationLaw ==
  Listed200 =>
    LET p == resp.pagination
    IN  /\ p.totalItems = Cardinality(Matching(store, BuildFilter(resp.query)))
        /\ p.hasPrevPage = (p.currentPage > 1)
        /\ p.totalPages.kind = "number"
        /\ IsCeiling(p.totalPages.value, p.totalItems, p.itemsPerPage)
        /\ p.hasNextPage = (p.currentPage < p.totalPages.value)

(* C17: the page and the limit a list request uses are at least 1, so the  *)
(* skip is never negative and the limit given to the store never zero or   *)
(* negative.                                                               *)
C17_PageAndLimitClamped ==
  resp.op = "list" =>
    /\ ~resp.used.page.nan /\ resp.used.page.n >= 1
    /\ ~resp.used.limit.nan /\ resp.used.limit.n >= 1
    /\ resp.used.skip >= 0

(* The search text is a substring of the name, email or message of doc,    *)
(* letter case apart.                                                      *)
SubstringMatches(doc, search) ==
  \E f \in SearchPaths :
    Has(doc, f) /\ Includes(ToLowerCase(doc[f]), ToLowerCase(search))

(* The records that satisfy every equality parameter of query and, when    *)
(* it has a search text, contain it.                                       *)
Selected(st, query) ==
  {id \in DOMAIN st :
     /\ \A q \in FilterParams \cap DOMAIN query :
          Has(st[id], PathOf(q)) /\ st[id][PathOf(q)] = query[q]
     /\ Has(query, "search") => SubstringMatches(st[id], query.search)}

(* A list request whose page and limit are at least 1. *)
AcceptedPaging(r) ==
  /\ ~r.used.page.nan /\ r.used.page.n >= 1
  /\ ~r.used.limit.nan /\ r.used.limit.n >= 1

(* C18: a list request selects exactly the records that satisfy every      *)
(* supplied equality parameter and, when search is supplied, contain the   *)
(* search text in name, email or message, letter case apart: totalItems    *)
(* counts them, the page holds only them, and all of them when they fit    *)
(* on the first page.                                                      *)
C18_FilterSelectsExactly ==
  (resp.op = "list" /\ AcceptedPaging(resp)) =>
    /\ resp.status = 200
    /\ resp.pagination.totalItems = Cardinality(Selected(store, resp.query))
    /\ resp.submissions \subseteq Selected(store, resp.query)
    /\ (resp.used.skip = 0 /\ resp.used.limit.n >= Cardinality(Selected(store, resp.query)))
         => resp.submissions = Selected(store, resp.query)

(* C19: a list request whose filter matches no stored record, with an      *)
(* accepted page and limit, succeeds with no submissions, totalItems 0,    *)
(* totalPages 0 and hasNextPage false.                                     *)
C19_EmptyResultSucceeds ==
  (resp.op = "list" /\ AcceptedPaging(resp) /\ Selected(store, resp.query) = {}) =>
    /\ resp.status = 200
    /\ resp.submissions = {}
    /\ resp.pagination.totalItems = 0
    /\ resp.pagination.totalPages = Number(0)
    /\ ~resp.pagination.hasNextPage

(* The records with a non-empty metadata.processingErrors list. *)
WithErrors(st) ==
  {id \in DOMAIN st :
     Has(st[id], "metadata") /\ st[id].metadata.processingErrors # <<>>}

(* r hundredths is num / den rounded to the nearest hundredth, half up. *)
IsRounded(r, num, den) ==
  /\ 2 * r * den - den <= 2 * num * 100
  /\ 2 * num * 100 < 2 * r * den + den

(* C20: in a dashboard response computed with no concurrent write,         *)
(* errorRate is errorCount / total * 100 rounded to two decimals when      *)
(* total > 0, errorCount being the number of records with a non-empty      *)
(* metadata.processingErrors list, and 0 when total = 0.                   *)
C20_ErrorRateLaw ==
  (resp.op = "dashboard" /\ resp.status = 200) =>
    LET total == Cardinality(DOMAIN store)
        errorCount == Cardinality(WithErrors(store))
    IN  /\ resp.overview.totalSubmissions = total
        /\ resp.overview.submissionsWithErrors = errorCount
        /\ IF total = 0 THEN resp.overview.errorRate = 0
           ELSE IsRounded(resp.overview.errorRate, errorCount * 100, total)

(* Two of three stored records carry processing errors: 66.67 percent. *)
C20_Witness ==
  /\ resp.op = "dashboard" /\ resp.status = 200
  /\ resp.overview.totalSubmissions = 3
  /\ resp.overview.submissionsWithErrors = 2
  /\ resp.overview.errorRate = 6667

(* C21: a dashboard request on an empty store answers totalSubmissions 0,  *)
(* errorRate 0, submissionsThisWeek 0, every breakdown an empty list and   *)
(* recent an empty list.                                                   *)
C21_EmptyDashboard ==
  (resp.op = "dashboard" /\ resp.up /\ store = EmptyRec) =>
    /\ resp.status = 200
    /\ resp.overview.totalSubmissions = 0
    /\ resp.overview.errorRate = 0
    /\ resp.overview.submissionsThisWeek = 0
    /\ \A b \in {"byType", "byStage", "byStatus", "byPriority"} :
         resp.breakdowns[b] = <<>>
    /\ resp.recent = {}

(* The dashboard of a store emptied by deletes. *)
C21_Witness ==
  /\ resp.op = "dashboard" /\ resp.status = 200
  /\ store = EmptyRec /\ nextId > 1

(* The tags of a create body, where the schema in force keeps them. *)
BodyTags(body) ==
  IF schema = "full"
  THEN IF Has(body, "metadata") /\ Has(body.metadata, "tags")
       THEN body.metadata.tags ELSE <<>>
  ELSE IF Has(body, "tags") THEN body.tags ELSE <<>>

(* C22: create sets no staff-workflow field: after a create whose payload  *)
(* carries assignedTo or tags, the stored record has no assignedTo and     *)
(* none of the payload's tags.                                             *)
C22_CreateLeavesStaffFields ==
  Created =>
    /\ ~Has(store[resp.id], "assignedTo")
    /\ \A i \in DOMAIN BodyTags(resp.req) :
         ~HasTag(store[resp.id], BodyTags(resp.req)[i])

(* lower is the letter upper in lower case, or the same character where    *)
(* upper is no upper-case letter.                                          *)
LowerOf(upper, lower) ==
  IF \E i \in DOMAIN UpperChars : UpperChars[i] = upper
  THEN \E i \in DOMAIN UpperChars : UpperChars[i] = upper /\ LowerChars[i] = lower
  ELSE lower = upper

(* out is the text in without its leading and trailing spaces, in lower    *)
(* case.                                                                   *)
TrimmedLowercased(in, out) ==
  /\ out # <<>> => out[1] # " " /\ out[Len(out)] # " "
  /\ \E lead \in 0..Len(in) :
       /\ lead + Len(out) <= Len(in)
       /\ \A k \in 1..Len(in) :
            IF k <= lead \/ k > lead + Len(out) THEN in[k] = " "
            ELSE LowerOf(in[k], out[k - lead])

(* C23: after every successful create the stored email is the email of the *)
(* request trimmed and in lower case.                                      *)
C23_EmailNormalised ==
  Created => TrimmedLowercased(resp.req.email, store[resp.id].email)

(* "JANE@X.COM " is stored as "jane@x.com". *)
C23_Witness ==
  /\ Created
  /\ resp.req.email = EmailJane
  /\ store[resp.id].email = <<"j", "a", "n", "e", "@", "x", ".", "c", "o", "m">>

(* C24: create appends the tag "auto-urgent" only when the classifier set  *)
(* the priority: a record stored by create with the tag has priority       *)
(* urgent, and a create that supplies its own priority stores no such tag. *)
C24_TagOnlyWhenClassified ==
  (Created /\ HasTag(store[resp.id], "auto-urgent")) =>
    /\ store[resp.id].priority = "urgent"
    /\ ~Has(resp.req, "priority")

(* The ids a bulk body lists. *)
ListedIds(body) == {body.ids.value[i] : i \in DOMAIN body.ids.value}

(* The bulk handler adds no record, removes none and leaves every record   *)
(* the body does not list as it was.                                       *)
BulkHandlerKeepsIds ==
  \A body \in BulkBodies :
    LET r == BulkStatusHandler(schema, store, body, now, TRUE)
    IN  /\ DOMAIN r.store = DOMAIN store
        /\ \A id \in DOMAIN store :
             (IdsRejected(body) \/ id \notin ListedIds(body)) => r.store[id] = store[id]

(* C25: the set of stored ids grows only by a successful create, by one id *)
(* that was not stored, and shrinks only by a successful delete, by the id *)
(* deleted; replace, partial status update and bulk status update keep the *)
(* set, and leave the store unchanged when addressed to an absent id.      *)
C25_IdsChangeByCreateAndDelete ==
  [][/\ DOMAIN store' # DOMAIN store =>
          \/ /\ resp'.op = "create" /\ resp'.status = 201
             /\ resp'.id \notin DOMAIN store
             /\ DOMAIN store' = DOMAIN store \cup {resp'.id}
          \/ /\ resp'.op = "delete" /\ resp'.status = 200
             /\ resp'.id \in DOMAIN store
             /\ DOMAIN store' = DOMAIN store \ {resp'.id}
     /\ (resp'.op = "create" /\ resp'.status = 201) => DOMAIN store' # DOMAIN store
     /\ (resp'.op = "delete" /\ resp'.status = 200) => DOMAIN store' # DOMAIN store
     /\ resp'.op \in {"put", "patchStatus", "bulkStatus"} =>
          /\ DOMAIN store' = DOMAIN store
          /\ resp'.id \notin DOMAIN store => store' = store
     /\ BulkHandlerKeepsIds]_vars

(* A replace and a partial update addressed to an id the store once held   *)
(* and holds no more, other records being stored.                          *)
C25_Witness ==
  /\ resp.op \in {"put", "patchStatus"} /\ resp.status = 404
  /\ store # EmptyRec
  /\ resp.id = IdNames[1] /\ nextId > 2

(* The bulk handler, with the store answering or not, leaves the store as  *)
(* it was whenever it answers with an error.                               *)
BulkHandlerErrorKeepsStore ==
  \A body \in BulkBodies \cup {BulkBogusBody}, up \in BOOLEAN :
    LET r == BulkStatusHandler(schema, store, body, now, up)
    IN  r.status >= 400 => r.store = store

BreakdownPath ==
  [byType |-> "submissionType", byStage |-> "stage", byStatus |-> "status",
   byPriority |-> "priority"]

RECURSIVE SumOfCounts(_)
SumOfCounts(groups) ==
  IF groups = <<>> THEN 0 ELSE Head(groups).count + SumOfCounts(Tail(groups))

(* C29: in a dashboard response computed with no concurrent write, the     *)
(* counts of each breakdown sum to totalSubmissions, each group's count is *)
(* the number of stored records with the group's value, and each breakdown *)
(* is in order of non-increasing count.                                    *)
C29_BreakdownLaw ==
  (resp.op = "dashboard" /\ resp.status = 200) =>
    /\ resp.overview.totalSubmissions = Cardinality(DOMAIN store)
    /\ \A b \in DOMAIN BreakdownPath :
         LET groups == resp.breakdowns[b]
         IN  /\ SumOfCounts(groups) = resp.overview.totalSubmissions
             /\ \A i \in DOMAIN groups :
                  groups[i].count =
                    Cardinality({id \in DOMAIN store :
                                   store[id][BreakdownPath[b]] = groups[i]._id})
             /\ \A i, j \in DOMAIN groups : i < j => groups[i].count >= groups[j].count

(* Two new records and an archived one; a record with priority high. *)
C29_Witness ==
  /\ resp.op = "dashboard" /\ resp.status = 200
  /\ resp.breakdowns.byStatus =
       <<[_id |-> "new", count |-> 2], [_id |-> "archived", count |-> 1]>>
  /\ Len(resp.breakdowns.byPriority) = 2

(* The record the create of the concurrent update specification stores. *)
FirstStored == CreateHandler(schema, BaseBody, 0, TRUE).doc

(* The calls that updated the first record with a value for field f. *)
Writers(f) ==
  {c \in Answered : inflight[c].status = 200 /\ f \in Supplied(inflight[c].req)}

(* C27: partial status updates of one record in flight together: every     *)
(* field written by some update holds the value of the update the store    *)
(* served last among those that wrote it, so updates of disjoint fields    *)
(* all take effect and updates of one field leave one of the written       *)
(* values; every field but updatedAt that none wrote is as it was stored.  *)
C27_ConcurrentPatches ==
  Has(store, IdNames[1]) =>
    LET doc == store[IdNames[1]]
    IN  /\ DOMAIN doc \ StatusFields = DOMAIN FirstStored \ StatusFields
        /\ \A f \in (DOMAIN doc \cup DOMAIN FirstStored) \ {"updatedAt"} :
             IF f \in StatusFields /\ Writers(f) # {}
             THEN \E c \in Writers(f) :
                    /\ \A d \in Writers(f) : inflight[d].turn <= inflight[c].turn
                    /\ Has(doc, f) /\ doc[f] = inflight[c].req[f]
             ELSE Has(doc, f) = Has(FirstStored, f)
                  /\ (Has(doc, f) => doc[f] = FirstStored[f])

(* An update of stage and an update of status sent while the first awaited *)
(* the store, served in the reverse order: both values are stored.         *)
C27_Witness ==
  /\ Answered = {"a", "b"}
  /\ inflight.a.req = [stage |-> "Quote Sent"] /\ inflight.b.req = [status |-> "archived"]
  /\ ~inflight.a.overlap /\ inflight.b.overlap /\ inflight.b.turn < inflight.a.turn
  /\ inflight.a.status = 200 /\ inflight.b.status = 200
  /\ store[IdNames[1]].stage = "Quote Sent" /\ store[IdNames[1]].status = "archived"

(* The bounds of the overview: the two counts within the total and the     *)
(* rate, in hundredths of a percent, within 0 and 100 percent.             *)
OverviewBounded(overview) ==
  /\ overview.submissionsThisWeek <= overview.totalSubmissions
  /\ overview.submissionsWithErrors <= overview.totalSubmissions
  /\ 0 <= overview.errorRate /\ overview.errorRate <= 10000

(* C28 as stated: in every dashboard response, whatever creates and        *)
(* deletes the store served between the request's queries,                 *)
(* submissionsThisWeek <= totalSubmissions, submissionsWithErrors <=       *)
(* totalSubmissions and 0 <= errorRate <= 100.                             *)
C28_OverviewBoundedAlways ==
  (resp.op = "dashboard" /\ resp.status = 200) => OverviewBounded(resp.overview)

(* C28, amended: the bounds hold in a dashboard response when no record    *)
(* was created or deleted between the request's queries; in every          *)
(* dashboard response the three counts and the rate are at least 0.        *)
C28_OverviewBoundedWhenQuiet ==
  (resp.op = "dashboard" /\ resp.status = 200) =>
    /\ resp.quiet => OverviewBounded(resp.overview)
    /\ resp.overview.totalSubmissions >= 0
    /\ resp.overview.submissionsThisWeek >= 0
    /\ resp.overview.submissionsWithErrors >= 0
    /\ resp.overview.errorRate >= 0

(* An undisturbed dashboard of two records, one with errors, one of them   *)
(* older than a week.                                                      *)
C28_Witness ==
  /\ resp.op = "dashboard" /\ resp.status = 200 /\ resp.quiet
  /\ resp.overview.totalSubmissions = 2
  /\ resp.overview.submissionsWithErrors = 1
  /\ resp.overview.submissionsThisWeek = 1
  /\ resp.overview.errorRate = 5000

Max0(n) == IF n < 0 THEN 0 ELSE n

(* C30: in every list response, whatever creates and deletes the store     *)
(* served between the page query and the count query, the number of        *)
(* returned submissions is at most totalItems and at most itemsPerPage;    *)
(* with no record created or deleted in between, page p with limit L >= 1  *)
(* returns exactly min(L, max(0, total - (p - 1) * L)) items.              *)
C30_PageSizeLaw ==
  (resp.op = "list" /\ resp.status = 200) =>
    LET returned == Cardinality(resp.submissions)
        total == resp.pagination.totalItems
        p == resp.pagination.currentPage
        L == resp.pagination.itemsPerPage
    IN  /\ returned <= total
        /\ returned <= L
        /\ (resp.quiet /\ L >= 1) => returned = Min(L, Max0(total - (p - 1) * L))

====
